---- MODULE Spec2Model ----
\* A model of main.py: the Flask webhook relay (webhook -> generate_response ->
\* send_telegram_message), its start-up check and its two outbound HTTP calls.
EXTENDS Integers, Sequences, FiniteSets, TLC

\* ---------------------------------------------------------------- bounds
\* Invocation slots of webhook() the hosting server may run side by side.
MaxInvocations == 2
\* Chat identifiers in inbound updates range over 0..MaxChatId.
MaxChatId == 2

Invocations == 1..MaxInvocations

\* ------------------------------------------------------------- constants
MAX_RETRIES == 3
REQUEST_TIMEOUT == 15
TELEGRAM_API_TIMEOUT == 10

\* Python's None for string-valued locals and an "unset" marker.
None == "<None>"

GREETING == "E ai gato! Eu sou a Melissa, sua acompanhante virtual... O que vamos aprontar hoje?"
EMPTY_TEXT_REPLY == "Manda algo mais interessante pra eu responder..."

fallback_responses ==
    << "To meio lenta hoje... manda de novo?",
       "A conexao falou... bora tentar outra vez?",
       "Nem ouvi direito... repete ai gato!" >>

FallbackPool == { fallback_responses[i] : i \in 1..Len(fallback_responses) }

\* ------------------------------------------------- python values, helpers
\* A JSON value that may be an integer, null (None) or missing from its dict.
JAbsent == [k |-> "absent", v |-> 0]
JNone == [k |-> "none", v |-> 0]
JInt(n) == [k |-> "int", v |-> n]

\* Python truthiness of a value produced by dict.get: None and 0 are falsy.
Truthy(j) == j.k = "int" /\ j.v # 0

\* Text values of message.text: absent, null, a non-string scalar, or a string
\* (a tuple of one-character strings).
TAbsent == [k |-> "absent", v |-> << >>]
TNull == [k |-> "null", v |-> << >>]
TNumber == [k |-> "number", v |-> << >>]
TStr(s) == [k |-> "str", v |-> s]

IsSpace(c) == c \in {" ", "\t", "\n"}

RECURSIVE lstrip(_)
lstrip(s) == IF s # << >> /\ IsSpace(Head(s)) THEN lstrip(Tail(s)) ELSE s

RECURSIVE rstrip(_)
rstrip(s) ==
    IF s # << >> /\ IsSpace(s[Len(s)]) THEN rstrip(SubSeq(s, 1, Len(s) - 1)) ELSE s

\* str.strip()
strip_None(s) == s
strip(s) == rstrip(lstrip(s))

\* str.startswith(prefix)
startswith(s, p) == Len(s) >= Len(p) /\ SubSeq(s, 1, Len(p)) = p

START_CMD == << "/", "s", "t", "a", "r", "t" >>

\* Exception classes that occur, and isinstance() on them.
ExcClasses ==
    { "Timeout", "ConnectionError", "ValueError", "KeyError", "IndexError",
      "TypeError", "AttributeError", "BadRequest", "UnsupportedMediaType" }

IsInstance(e, cls) ==
    CASE cls = "Exception" -> e \in ExcClasses
      [] OTHER -> e = cls

\* ------------------------------------------------------- inbound updates
\* The strings message.text ranges over.
Texts ==
    { << >>,
      << " " >>,
      << "\n", " " >>,
      START_CMD,
      << " " >> \o START_CMD \o << " " >>,
      START_CMD \o << " ", "x" >>,
      START_CMD \o << "x" >>,
      << "/", "s", "t", "a", "r" >>,
      << "x" >> \o START_CMD,
      << "h", "i" >>,
      << " ", "h", "i", "\n" >> }

TextValues == { TAbsent, TNull, TNumber } \cup { TStr(s) : s \in Texts }
IdValues == { JAbsent, JNone } \cup { JInt(n) : n \in 0..MaxChatId }

\* What the request body is: "badjson" an empty or unparseable body sent as
\* JSON, "nomime" a body without a JSON content type, "falsy" a JSON value that
\* is falsy in Python (null, {}, [], 0, "", false), "scalar" a truthy JSON value
\* that is no object, "object" a non-empty JSON object.
BodyKinds == { "badjson", "nomime", "falsy", "scalar", "object" }
\* What a key of an object holds: nothing, null, a non-object value, an object.
FieldKinds == { "absent", "null", "scalar", "object" }

NoUpdate == [body |-> "none", message |-> "absent", chat |-> "absent",
             id |-> JAbsent, text |-> TAbsent]

Updates ==
    { u \in [body : BodyKinds, message : FieldKinds, chat : FieldKinds,
             id : IdValues, text : TextValues] :
        /\ u.body # "object" => u.message = "absent"
        /\ u.message # "object" => u.chat = "absent" /\ u.text = TAbsent
        /\ u.chat # "object" => u.id = JAbsent }


\* ---------------------------------------------------- network outcomes
\* One POST to the platform's sendMessage: a response with a status code, or a
\* transport fault raised by requests.post.  accepted says whether the platform
\* processed the message: always on a 200, never on another status, and
\* possibly on a timeout (the reply was lost on its way back).
PlatformOutcomes ==
    { [exc |-> "none", status |-> 200, accepted |-> TRUE],
      [exc |-> "none", status |-> 400, accepted |-> FALSE],
      [exc |-> "none", status |-> 503, accepted |-> FALSE],
      [exc |-> "ConnectionError", status |-> 0, accepted |-> FALSE],
      [exc |-> "Timeout", status |-> 0, accepted |-> FALSE],
      [exc |-> "Timeout", status |-> 0, accepted |-> TRUE] }

\* Contents a completion may carry.
Contents == { "X", "Y" }

\* Response bodies of the completion provider: "completion" is
\* {choices:[{message:{content:X}}]}, "error_obj" {error:{message:..}},
\* "error_str" {error:".."}, "empty_choices" {choices:[]}, "json_list" a JSON
\* array, "not_json" a body response.json() cannot parse.
CompletionBodies ==
    { "completion", "error_obj", "error_str", "empty_choices", "json_list", "not_json" }

CompletionOutcomes ==
    { o \in [exc : {"none"}, status : {200, 500}, body : CompletionBodies,
             content : Contents \cup {None}] :
        (o.body = "completion") = (o.content # None) }
    \cup { [exc |-> e, status |-> 0, body |-> "not_json", content |-> None] :
             e \in {"Timeout", "ConnectionError"} }

\* requests.post(..., timeout=t): a peer that stays silent ends the call with a
\* Timeout after t seconds; with no timeout the call would never return.
blocks_NoTimeout(o, timeout) == o.exc = "Timeout"
blocks(o, timeout) == o.exc = "Timeout" /\ ~(timeout > 0)

\* ------------------------------------------------------------- variables
VARIABLES
    proc,                \* "starting", "serving" or "exited" (sys.exit(1))
    environ,             \* os.environ: TELEGRAM_TOKEN, OPENROUTER_API_KEY
    TELEGRAM_TOKEN,      \* module globals, set after check_environment()
    OPENROUTER_API_KEY,
    inbox,               \* per invocation: the updates that may arrive at it
    network,             \* the outcomes the two upstream services can produce
    pc,                  \* per invocation: its position in the code
    caller,              \* "webhook", or "direct" for a bare function call
    update,              \* the inbound update of the invocation
    chat_id, text, response_text,   \* webhook()'s locals
    http,                \* the HTTP response webhook() returned
    escaped,             \* the exception that left the called function, if any
    prompt,              \* generate_response's argument
    gen_calls,           \* invocations of generate_response
    completion,          \* outcomes of the POSTs to the completion provider
    gen_ret,             \* generate_response's return value
    send_calls,          \* invocations of send_telegram_message
    attempt,             \* its loop variable
    posts,               \* the POSTs to the platform: chat_id, text, outcome
    sleeps,              \* the time.sleep() calls made, in order
    backoff,             \* the sleep the loop is about to make
    send_ret,            \* its return value: "none", "True", "False"
    delivered,           \* copies of the reply the platform accepted
    checks,              \* health_check()'s local dict
    probes,              \* the requests health_check() made, with their outcomes
    health               \* the status health_check() returned

globals == << proc, environ, TELEGRAM_TOKEN, OPENROUTER_API_KEY, inbox, network >>
hvars == << update, chat_id, text, response_text >>
gvars == << prompt, gen_calls, completion, gen_ret >>
svars == << send_calls, attempt, posts, sleeps, backoff, send_ret, delivered >>
kvars == << checks, probes, health >>
vars == << globals, pc, caller, http, escaped, hvars, gvars, svars, kvars >>

NoHttp == [code |-> 0, status |-> None, message |-> None]

\* jsonify({...}) with an optional status code (200 when none is given).
Response(code, status, message) ==
    [code |-> code, status |-> status, message |-> message]

\* health_check()'s checks dict as it is initialised.
NoChecks == [telegram_api |-> FALSE, openrouter_api |-> FALSE]

\* Every outcome the platform and the completion provider can produce.
AnyNetwork == [platform |-> PlatformOutcomes, completion |-> CompletionOutcomes]

Locals0 ==
    /\ update = [r \in Invocations |-> NoUpdate]
    /\ chat_id = [r \in Invocations |-> JNone]
    /\ response_text = [r \in Invocations |-> None]
    /\ http = [r \in Invocations |-> NoHttp]
    /\ escaped = [r \in Invocations |-> "none"]
    /\ completion = [r \in Invocations |-> << >>]
    /\ gen_ret = [r \in Invocations |-> None]
    /\ send_calls = [r \in Invocations |-> 0]
    /\ attempt = [r \in Invocations |-> 0]
    /\ posts = [r \in Invocations |-> << >>]
    /\ sleeps = [r \in Invocations |-> << >>]
    /\ backoff = [r \in Invocations |-> 0]
    /\ send_ret = [r \in Invocations |-> "none"]
    /\ delivered = [r \in Invocations |-> 0]
    /\ checks = [r \in Invocations |-> NoChecks]
    /\ probes = [r \in Invocations |-> << >>]
    /\ health = [r \in Invocations |-> None]

\* The process as it is launched: the environment is whatever the deployment
\* set, one inbound update is handled (by invocation 1).
Init ==
    /\ proc = "starting"
    /\ environ \in [TELEGRAM_TOKEN : {"", "token"}, OPENROUTER_API_KEY : {"", "key"}]
    /\ TELEGRAM_TOKEN = None
    /\ OPENROUTER_API_KEY = None
    /\ inbox = [r \in Invocations |-> IF r = 1 THEN Updates ELSE {}]
    /\ network = AnyNetwork
    /\ pc = [r \in Invocations |-> "idle"]
    /\ caller = [r \in Invocations |-> "webhook"]
    /\ prompt = [r \in Invocations |-> << >>]
    /\ gen_calls = [r \in Invocations |-> 0]
    /\ text = [r \in Invocations |-> << >>]
    /\ Locals0

\* ------------------------------------------------------------- start-up
\* check_environment(): the errors it collects (packages are installed).
check_environment(env) ==
    { var \in {"TELEGRAM_TOKEN", "OPENROUTER_API_KEY"} : env[var] = "" }

\* Module import: check_environment(), sys.exit(1) on errors, then the globals.
Startup ==
    /\ proc = "starting"
    /\ IF check_environment(environ) # {}
       THEN /\ proc' = "exited"
            /\ UNCHANGED << TELEGRAM_TOKEN, OPENROUTER_API_KEY >>
       ELSE /\ proc' = "serving"
            /\ TELEGRAM_TOKEN' = environ.TELEGRAM_TOKEN
            /\ OPENROUTER_API_KEY' = environ.OPENROUTER_API_KEY
    /\ UNCHANGED << environ, inbox, network, kvars, pc, caller, http, escaped, hvars, gvars, svars >>


\* ------------------------------------------------------------ webhook()
\* request.get_json(): what it returns ("None", or the kind of the parsed
\* value) or raises.  A JSON body that does not parse raises BadRequest; a body
\* without a JSON content type gives None or raises UnsupportedMediaType,
\* depending on the Flask release.
get_json(body) ==
    CASE body = "badjson" -> { [exc |-> "BadRequest", data |-> "None"] }
      [] body = "nomime" -> { [exc |-> "none", data |-> "None"],
                              [exc |-> "UnsupportedMediaType", data |-> "None"] }
      [] OTHER -> { [exc |-> "none", data |-> body] }

\* The except clause of webhook(): except Exception.
webhook_except_BadRequestOnly(exc) == IsInstance(exc, "BadRequest")
webhook_except(exc) == IsInstance(exc, "Exception")

Extracted(exc, code, message, cid, txt) ==
    [exc |-> exc, code |-> code, message |-> message, chat_id |-> cid, text |-> txt]

\* webhook(), from get_json's result to the chat-id check: the exception raised,
\* or the 400 answered, or (code 0) the chat_id and text extracted.
webhook_extract(u, gj) ==
    IF gj.exc # "none"
    THEN Extracted(gj.exc, 0, None, JNone, << >>)
    ELSE IF gj.data \in {"None", "falsy"}                       \* if not data
    THEN Extracted("none", 400, "Empty request", JNone, << >>)
    ELSE IF gj.data # "object"                                  \* data.get
    THEN Extracted("AttributeError", 0, None, JNone, << >>)
    ELSE IF u.message \in {"null", "scalar"}                    \* message.get
    THEN Extracted("AttributeError", 0, None, JNone, << >>)
    ELSE IF u.chat \in {"null", "scalar"}                       \* (chat).get("id")
    THEN Extracted("AttributeError", 0, None, JNone, << >>)
    ELSE IF u.text.k \in {"null", "number"}                     \* (text).strip()
    THEN Extracted("AttributeError", 0, None, JNone, << >>)
    ELSE LET cid == IF u.id.k = "absent" THEN JNone ELSE u.id
             txt == IF u.text.k = "absent" THEN << >> ELSE strip(u.text.v)
         IN  IF ~Truthy(cid)                                    \* if not chat_id
             THEN Extracted("none", 400, "Invalid chat ID", cid, txt)
             ELSE Extracted("none", 0, None, cid, txt)

\* The if/elif/else on text: which reply webhook() prepares.
dispatch_GenFirst(txt) ==
    IF txt # << >> THEN "generate"
    ELSE IF startswith(txt, START_CMD) THEN "greeting" ELSE "empty"
dispatch(txt) ==
    IF startswith(txt, START_CMD) THEN "greeting"
    ELSE IF txt # << >> THEN "generate"
    ELSE "empty"

\* An exception reaches the end of the function that runs: webhook()'s except
\* clause turns it into the 500 answer, otherwise it leaves the function.
Unwind(r, exc) ==
    /\ pc' = [pc EXCEPT ![r] = "done"]
    /\ IF caller[r] = "webhook" /\ webhook_except(exc)
       THEN /\ http' = [http EXCEPT ![r] = Response(500, "error", "Internal server error")]
            /\ escaped' = escaped
       ELSE /\ escaped' = [escaped EXCEPT ![r] = exc]
            /\ http' = http

\* webhook(), from its entry to the call of generate_response or of
\* send_telegram_message, or to its early return.
webhook(r) ==
    /\ proc = "serving"
    /\ pc[r] = "idle"
    /\ \E u \in inbox[r] : \E gj \in get_json(u.body) :
         LET x == webhook_extract(u, gj) IN
         /\ update' = [update EXCEPT ![r] = u]
         /\ IF x.exc # "none"
            THEN /\ Unwind(r, x.exc)
                 /\ UNCHANGED << chat_id, text, response_text >>
            ELSE IF x.code # 0
            THEN /\ http' = [http EXCEPT ![r] = Response(x.code, "error", x.message)]
                 /\ pc' = [pc EXCEPT ![r] = "done"]
                 /\ chat_id' = [chat_id EXCEPT ![r] = x.chat_id]
                 /\ text' = [text EXCEPT ![r] = x.text]
                 /\ UNCHANGED << response_text, escaped >>
            ELSE /\ chat_id' = [chat_id EXCEPT ![r] = x.chat_id]
                 /\ text' = [text EXCEPT ![r] = x.text]
                 /\ response_text' =
                      [response_text EXCEPT ![r] =
                         CASE dispatch(x.text) = "greeting" -> GREETING
                           [] dispatch(x.text) = "empty" -> EMPTY_TEXT_REPLY
                           [] OTHER -> @]
                 /\ pc' = [pc EXCEPT ![r] =
                             IF dispatch(x.text) = "generate" THEN "gen_call" ELSE "send_call"]
                 /\ UNCHANGED << http, escaped >>
    /\ UNCHANGED << globals, kvars, caller, gvars, svars >>

\* webhook(), after send_telegram_message returned: the failure is logged and
\* the answer is the success body either way.
webhook_respond_FailOnFalse(r) ==
    /\ pc[r] = "respond"
    /\ http' = [http EXCEPT ![r] =
                  IF send_ret[r] = "True" THEN Response(200, "success", None)
                  ELSE Response(500, "error", "Internal server error")]
    /\ pc' = [pc EXCEPT ![r] = "done"]
    /\ UNCHANGED << globals, kvars, caller, escaped, hvars, gvars, svars >>
webhook_respond(r) ==
    /\ pc[r] = "respond"
    /\ http' = [http EXCEPT ![r] = Response(200, "success", None)]
    /\ pc' = [pc EXCEPT ![r] = "done"]
    /\ UNCHANGED << globals, kvars, caller, escaped, hvars, gvars, svars >>


\* --------------------------------------------------- generate_response()
\* if not OPENROUTER_API_KEY
key_missing_Never(key) == FALSE
key_missing(key) == key \in {"", None}

\* The body of the try block, after requests.post: the exception raised, or
\* the value returned (None when control falls through to the fallback).
Tried(exc, ret) == [exc |-> exc, ret |-> ret]

generate_try_AnyStatus(o) ==
    IF o.exc # "none" THEN Tried(o.exc, None)
    ELSE CASE o.body = "completion" -> Tried("none", o.content)
           [] o.body = "not_json" -> Tried("ValueError", None)
           [] o.body = "json_list" -> Tried("TypeError", None)
           [] o.body = "empty_choices" -> Tried("IndexError", None)
           [] OTHER -> Tried("KeyError", None)
generate_try_WrongKey(o) ==
    IF o.exc # "none" THEN Tried(o.exc, None)
    ELSE IF o.status = 200
    THEN CASE o.body = "not_json" -> Tried("ValueError", None)
           [] o.body = "json_list" -> Tried("TypeError", None)
           [] o.body = "empty_choices" -> Tried("IndexError", None)
           [] OTHER -> Tried("KeyError", None)
    ELSE CASE o.body = "not_json" -> Tried("ValueError", None)
           [] o.body \in {"json_list", "error_str"} -> Tried("AttributeError", None)
           [] OTHER -> Tried("none", None)
generate_try(o) ==
    IF o.exc # "none" THEN Tried(o.exc, None)
    ELSE IF o.status = 200
    THEN \* response.json()["choices"][0]["message"]["content"]
         CASE o.body = "completion" -> Tried("none", o.content)
           [] o.body = "not_json" -> Tried("ValueError", None)
           [] o.body = "json_list" -> Tried("TypeError", None)
           [] o.body = "empty_choices" -> Tried("IndexError", None)
           [] OTHER -> Tried("KeyError", None)
    ELSE \* response.json().get("error", {}).get("message", ...)
         CASE o.body = "not_json" -> Tried("ValueError", None)
           [] o.body \in {"json_list", "error_str"} -> Tried("AttributeError", None)
           [] OTHER -> Tried("none", None)

\* The except clauses: requests.exceptions.Timeout, then Exception.
generate_except_TimeoutOnly(exc) == IsInstance(exc, "Timeout")
generate_except(exc) == IsInstance(exc, "Timeout") \/ IsInstance(exc, "Exception")

\* return val: to webhook(), which sends it, or to the direct caller.
generate_return_Retry(r, val) ==
    IF val \in FallbackPool /\ Len(completion[r]) < 2
    THEN /\ pc' = [pc EXCEPT ![r] = "gen_post"]
         /\ UNCHANGED << gen_ret, response_text, http, escaped >>
    ELSE /\ gen_ret' = [gen_ret EXCEPT ![r] = val]
         /\ response_text' = [response_text EXCEPT ![r] = val]
         /\ pc' = [pc EXCEPT ![r] = "send_call"]
         /\ UNCHANGED << http, escaped >>
generate_return(r, val) ==
    /\ gen_ret' = [gen_ret EXCEPT ![r] = val]
    /\ IF caller[r] = "webhook"
       THEN /\ response_text' = [response_text EXCEPT ![r] = val]
            /\ pc' = [pc EXCEPT ![r] = "send_call"]
       ELSE /\ response_text' = response_text
            /\ pc' = [pc EXCEPT ![r] = "done"]
    /\ UNCHANGED << http, escaped >>

\* generate_response(text) is entered: the credential check.
generate_response(r) ==
    /\ pc[r] = "gen_call"
    /\ gen_calls' = [gen_calls EXCEPT ![r] = @ + 1]
    /\ prompt' = [prompt EXCEPT ![r] = text[r]]
    /\ IF key_missing(OPENROUTER_API_KEY)
       THEN \E i \in 1..Len(fallback_responses) :        \* random.choice
              generate_return(r, fallback_responses[i])
       ELSE /\ pc' = [pc EXCEPT ![r] = "gen_post"]
            /\ UNCHANGED << gen_ret, response_text, http, escaped >>
    /\ UNCHANGED << globals, kvars, caller, update, chat_id, text, completion, svars >>

\* The POST to the completion provider and what follows it.
generate_post(r) ==
    /\ pc[r] = "gen_post"
    /\ \E o \in network.completion :
         LET t == generate_try(o) IN
         /\ completion' = [completion EXCEPT ![r] = Append(@, o)]
         /\ IF blocks(o, REQUEST_TIMEOUT)
            THEN /\ pc' = [pc EXCEPT ![r] = "blocked"]
                 /\ UNCHANGED << gen_ret, response_text, http, escaped >>
            ELSE IF t.exc # "none" /\ ~generate_except(t.exc)
            THEN /\ Unwind(r, t.exc)
                 /\ UNCHANGED << gen_ret, response_text >>
            ELSE IF t.exc = "none" /\ t.ret # None
            THEN generate_return(r, t.ret)
            ELSE \E i \in 1..Len(fallback_responses) :   \* random.choice
                   generate_return(r, fallback_responses[i])
    /\ UNCHANGED << globals, kvars, caller, update, chat_id, text, prompt, gen_calls, svars >>

\* ----------------------------------------------- send_telegram_message()
\* for attempt in range(MAX_RETRIES)
in_range_Inclusive(a) == a <= MAX_RETRIES
in_range(a) == a < MAX_RETRIES

\* The except clause of the loop body: except Exception.
send_except(exc) == IsInstance(exc, "Exception")

\* if response.status_code == 200
is_success_Any2xx4xx(status) == status < 500
is_success(status) == status = 200

\* time.sleep(1) after a non-200 response, time.sleep(2) in the except clause.
sleep_after_Flat(o) == 1
sleep_after(o) == IF o.exc # "none" THEN 2 ELSE 1

\* send_telegram_message(chat_id, response_text) is entered.
send_telegram_message(r) ==
    /\ pc[r] = "send_call"
    /\ send_calls' = [send_calls EXCEPT ![r] = @ + 1]
    /\ attempt' = [attempt EXCEPT ![r] = 0]
    /\ pc' = [pc EXCEPT ![r] = IF in_range(0) THEN "send_post" ELSE "send_fail"]
    /\ UNCHANGED << globals, kvars, caller, http, escaped, hvars, gvars,
                    posts, sleeps, backoff, send_ret, delivered >>

\* json={"chat_id": chat_id, "text": text, ...}: the arguments of the call.
send_payload_Redraw(r) ==
    [chat_id |-> chat_id[r],
     text |-> IF response_text[r] \in FallbackPool
              THEN fallback_responses[(attempt[r] % Len(fallback_responses)) + 1]
              ELSE response_text[r]]
send_payload(r) == [chat_id |-> chat_id[r], text |-> response_text[r]]

\* One requests.post to the platform and the test of its result.
send_post(r) ==
    /\ pc[r] = "send_post"
    /\ \E o \in network.platform :
         /\ posts' = [posts EXCEPT ![r] =
                        Append(@, [chat_id |-> send_payload(r).chat_id,
                                   text |-> send_payload(r).text, outcome |-> o])]
         /\ delivered' = [delivered EXCEPT ![r] = IF o.accepted THEN @ + 1 ELSE @]
         /\ IF blocks(o, TELEGRAM_API_TIMEOUT)
            THEN /\ pc' = [pc EXCEPT ![r] = "blocked"]
                 /\ UNCHANGED << send_ret, backoff, http, escaped >>
            ELSE IF o.exc # "none" /\ ~send_except(o.exc)
            THEN /\ Unwind(r, o.exc)
                 /\ UNCHANGED << send_ret, backoff >>
            ELSE IF o.exc = "none" /\ is_success(o.status)
            THEN /\ send_ret' = [send_ret EXCEPT ![r] = "True"]
                 /\ pc' = [pc EXCEPT ![r] = "respond"]
                 /\ UNCHANGED << backoff, http, escaped >>
            ELSE /\ backoff' = [backoff EXCEPT ![r] = sleep_after(o)]
                 /\ pc' = [pc EXCEPT ![r] = "send_sleep"]
                 /\ UNCHANGED << send_ret, http, escaped >>
    /\ UNCHANGED << globals, kvars, caller, hvars, gvars, send_calls, attempt, sleeps >>

\* time.sleep(backoff), then the loop takes its next value or ends.
send_sleep_SharedCounter(r) ==
    /\ pc[r] = "send_sleep"
    /\ sleeps' = [sleeps EXCEPT ![r] = Append(@, backoff[r])]
    /\ attempt' = [q \in Invocations |-> attempt[q] + 1]
    /\ pc' = [pc EXCEPT ![r] = IF in_range(attempt[r] + 1) THEN "send_post" ELSE "send_fail"]
    /\ UNCHANGED << globals, kvars, caller, http, escaped, hvars, gvars,
                    send_calls, posts, backoff, send_ret, delivered >>
send_sleep(r) ==
    /\ pc[r] = "send_sleep"
    /\ sleeps' = [sleeps EXCEPT ![r] = Append(@, backoff[r])]
    /\ attempt' = [attempt EXCEPT ![r] = @ + 1]
    /\ pc' = [pc EXCEPT ![r] = IF in_range(attempt[r] + 1) THEN "send_post" ELSE "send_fail"]
    /\ UNCHANGED << globals, kvars, caller, http, escaped, hvars, gvars,
                    send_calls, posts, backoff, send_ret, delivered >>

\* The loop is exhausted: the failure is logged, return False.
send_fail(r) ==
    /\ pc[r] = "send_fail"
    /\ send_ret' = [send_ret EXCEPT ![r] = "False"]
    /\ pc' = [pc EXCEPT ![r] = "respond"]
    /\ UNCHANGED << globals, kvars, caller, http, escaped, hvars, gvars,
                    send_calls, attempt, posts, sleeps, backoff, delivered >>

\* --------------------------------------------------------- health_check()
\* One probe (requests.get of getMe, requests.head of the completion host): a
\* response with a status code, or a fault raised within the 3 s timeout.
ProbeOutcomes ==
    { [exc |-> "none", status |-> 200], [exc |-> "none", status |-> 503],
      [exc |-> "Timeout", status |-> 0], [exc |-> "ConnectionError", status |-> 0] }

\* The except clause of either check: except Exception.
health_except_TimeoutOnly(exc) == IsInstance(exc, "Timeout")
health_except(exc) == IsInstance(exc, "Exception")

\* tg_response.status_code == 200, or_response.status_code == 200
probe_ok(o) == o.status = 200

\* "healthy" if all(checks.values()) else "degraded"
health_status(c) == IF c.telegram_api /\ c.openrouter_api THEN "healthy" ELSE "degraded"

\* health_check() is entered: checks = {both False}.
health_check(r) ==
    /\ proc = "serving"
    /\ pc[r] = "idle"
    /\ caller[r] = "health"
    /\ checks' = [checks EXCEPT ![r] = NoChecks]
    /\ pc' = [pc EXCEPT ![r] = "health_telegram"]
    /\ UNCHANGED << globals, caller, http, escaped, hvars, gvars, svars, probes, health >>

\* One check: the request, the assignment to checks[key], the except clause.
\* An exception the clause does not catch leaves health_check().
health_probe(r, at, key, next) ==
    /\ pc[r] = at
    /\ \E o \in ProbeOutcomes :
         /\ probes' = [probes EXCEPT ![r] = Append(@, [target |-> key, outcome |-> o])]
         /\ IF o.exc = "none"
            THEN /\ checks' = [checks EXCEPT ![r][key] = probe_ok(o)]
                 /\ pc' = [pc EXCEPT ![r] = next]
                 /\ UNCHANGED escaped
            ELSE IF health_except(o.exc)
            THEN /\ pc' = [pc EXCEPT ![r] = next]
                 /\ UNCHANGED << checks, escaped >>
            ELSE /\ escaped' = [escaped EXCEPT ![r] = o.exc]
                 /\ pc' = [pc EXCEPT ![r] = "done"]
                 /\ UNCHANGED checks
    /\ UNCHANGED << globals, caller, http, hvars, gvars, svars, health >>

\* Teste Telegram
health_telegram(r) == health_probe(r, "health_telegram", "telegram_api", "health_openrouter")

\* Teste OpenRouter
health_openrouter(r) == health_probe(r, "health_openrouter", "openrouter_api", "health_return")

\* status = ...; return jsonify({status, checks, timestamp})
health_return(r) ==
    /\ pc[r] = "health_return"
    /\ health' = [health EXCEPT ![r] = health_status(checks[r])]
    /\ pc' = [pc EXCEPT ![r] = "done"]
    /\ UNCHANGED << globals, caller, http, escaped, hvars, gvars, svars, checks, probes >>

\* ------------------------------------------------------- specifications
Next ==
    \/ Startup
    \/ \E r \in Invocations :
         \/ webhook(r)
         \/ generate_response(r)
         \/ generate_post(r)
         \/ send_telegram_message(r)
         \/ send_post(r)
         \/ send_sleep(r)
         \/ send_fail(r)
         \/ webhook_respond(r)

Spec == Init /\ [][Next]_vars


\* generate_response called on its own, as a test with the module global
\* patched calls it: any argument, the credential configured or not.
InitGen ==
    /\ proc = "serving"
    /\ environ = [TELEGRAM_TOKEN |-> "token", OPENROUTER_API_KEY |-> "key"]
    /\ TELEGRAM_TOKEN = "token"
    /\ OPENROUTER_API_KEY \in {None, "", "key"}
    /\ inbox = [r \in Invocations |-> {}]
    /\ network = AnyNetwork
    /\ pc = [r \in Invocations |-> IF r = 1 THEN "gen_call" ELSE "idle"]
    /\ caller = [r \in Invocations |-> IF r = 1 THEN "direct" ELSE "webhook"]
    /\ prompt = [r \in Invocations |-> << >>]
    /\ gen_calls = [r \in Invocations |-> 0]
    /\ Locals0
    /\ \E t \in Texts : text = [r \in Invocations |-> IF r = 1 THEN t ELSE << >>]

NextGen == \E r \in Invocations : generate_response(r) \/ generate_post(r)

SpecGen == InitGen /\ [][NextGen]_vars


\* ================================================================ claims
\* Shapes of inbound updates the claims speak of.
IdPresent(u) == u.body = "object" /\ u.id.k = "int"
IdNonZero(u) == IdPresent(u) /\ u.id.v # 0
TextUsable(u) == u.text.k \in {"absent", "str"}
\* The raw texts that, trimmed, start with "/start"; and those that are
\* empty or made of whitespace only.
StartTexts ==
    { START_CMD, << " " >> \o START_CMD \o << " " >>,
      START_CMD \o << " ", "x" >>, START_CMD \o << "x" >> }
BlankTexts == { << >>, << " " >>, << "\n", " " >> }
TextBlank(u) == u.text.k = "absent" \/ (u.text.k = "str" /\ u.text.v \in BlankTexts)
TextStart(u) == u.text.k = "str" /\ u.text.v \in StartTexts

Is200(p) == p.outcome.exc = "none" /\ p.outcome.status = 200
Done(r) == pc[r] = "done"
Success == [code |-> 200, status |-> "success", message |-> None]

\* C1 (as stated): every handled update whose message.chat.id is present starts
\* exactly one send_telegram_message, which makes 1 to 3 POSTs.
C1_Original ==
    \A r \in Invocations :
        Done(r) /\ IdPresent(update[r]) =>
            send_calls[r] = 1 /\ Len(posts[r]) \in 1..3

\* C1 (amended): every handled update whose message.chat.id is a non-zero
\* integer and whose message.text is absent or a string starts exactly one
\* send_telegram_message, which makes 1 to 3 POSTs, whatever generate_response
\* did; and no invocation ever starts a second send or makes a fourth POST.
C1_OneSendSequence ==
    \A r \in Invocations :
        /\ send_calls[r] <= 1
        /\ Len(posts[r]) <= 3
        /\ Len(posts[r]) > 0 => send_calls[r] = 1
        /\ Done(r) /\ IdNonZero(update[r]) /\ TextUsable(update[r]) =>
               send_calls[r] = 1 /\ Len(posts[r]) \in 1..3

\* A handled update whose reply was a fallback and whose send took 3 POSTs.
C1_Witness ==
    \E r \in Invocations :
        /\ Done(r) /\ IdNonZero(update[r]) /\ TextUsable(update[r])
        /\ gen_ret[r] \in FallbackPool
        /\ send_calls[r] = 1 /\ Len(posts[r]) = 3

\* C2 (as stated): the platform accepts at most one copy of the reply of one
\* update, whatever the network outcomes.
C2_AtMostOneCopy == \A r \in Invocations : delivered[r] <= 1

\* C3: send_telegram_message never raises; it returns True exactly when an
\* attempt got HTTP 200, that attempt being its last POST; it returns False
\* only after 3 attempts none of which got a 200.
C3_SenderResult ==
    \A r \in Invocations :
        /\ send_calls[r] > 0 /\ pc[r] \in {"respond", "done"} =>
               escaped[r] = "none" /\ send_ret[r] \in {"True", "False"}
        /\ (send_ret[r] = "True") = (\E i \in 1..Len(posts[r]) : Is200(posts[r][i]))
        /\ \A i \in 1..Len(posts[r]) : Is200(posts[r][i]) => i = Len(posts[r])
        /\ send_ret[r] = "False" =>
               Len(posts[r]) = 3 /\ \A i \in 1..3 : ~Is200(posts[r][i])

\* The Sender returned True on its third attempt, after a non-200 and a fault.
C3_Witness ==
    \E r \in Invocations :
        /\ send_ret[r] = "True" /\ Len(posts[r]) = 3
        /\ posts[r][1].outcome.status = 503
        /\ posts[r][2].outcome.exc = "Timeout"

\* C4: once validation passed (control went beyond the chat-id check, so
\* send_telegram_message was called), webhook() answers 200 {status: success}
\* whether the Sender returned True or False, never 400 or 500.
C4_SuccessDespiteSendFailure ==
    \A r \in Invocations :
        /\ send_calls[r] > 0 => http[r] \in {NoHttp, Success}
        /\ send_calls[r] > 0 /\ Done(r) => http[r] = Success /\ send_ret[r] # "none"

\* The Sender gave up and the caller got the success answer.
C4_Witness ==
    \E r \in Invocations : Done(r) /\ send_ret[r] = "False" /\ http[r] = Success

\* What the completion call of an invocation ended in.
CompletionFailed(o) == o.exc # "none" \/ o.status # 200 \/ o.body # "completion"
Returned(r) == gen_calls[r] > 0 /\ pc[r] # "gen_post"

\* C5: generate_response never raises, and when its completion call ends in a
\* non-200 status (any body), a timeout, a transport error or a 200 with a body
\* that is no completion, it returns a member of the fallback pool.
C5_FallbackOnFailure ==
    \A r \in Invocations :
        Returned(r) =>
            /\ escaped[r] = "none" /\ gen_ret[r] # None
            /\ (completion[r] # << >> /\ CompletionFailed(completion[r][1])) =>
                   gen_ret[r] \in FallbackPool

\* A 500 answer carrying a well-formed completion still gave a fallback.
C5_Witness ==
    \E r \in Invocations :
        /\ Returned(r) /\ completion[r] # << >>
        /\ completion[r][1].status = 500 /\ completion[r][1].body = "completion"
        /\ gen_ret[r] \in FallbackPool

\* C6: on HTTP 200 with body {choices:[{message:{content:X}}]},
\* generate_response returns exactly X, and no fallback string.
C6_ContentReturned ==
    \A r \in Invocations :
        (Returned(r) /\ completion[r] # << >> /\ ~CompletionFailed(completion[r][1])) =>
            gen_ret[r] = completion[r][1].content /\ gen_ret[r] \notin FallbackPool

\* A completion "Y" was returned and is on its way to the chat.
C6_Witness ==
    \E r \in Invocations :
        /\ Returned(r) /\ completion[r] # << >>
        /\ completion[r][1].status = 200 /\ completion[r][1].content = "Y"
        /\ gen_ret[r] = "Y"

\* C7: with no completion credential configured, generate_response returns a
\* member of the fallback pool for every input and makes no HTTP call to the
\* completion provider.
C7_NoKeyNoCall ==
    \A r \in Invocations :
        OPENROUTER_API_KEY \in {None, ""} =>
            /\ completion[r] = << >>
            /\ pc[r] # "gen_post"
            /\ gen_calls[r] > 0 => gen_ret[r] \in FallbackPool

\* generate_response returned without a credential, for a non-empty prompt.
C7_Witness ==
    \E r \in Invocations :
        /\ OPENROUTER_API_KEY = "" /\ gen_calls[r] = 1 /\ pc[r] = "done"
        /\ prompt[r] = << "h", "i" >> /\ gen_ret[r] \in FallbackPool

\* C8: for an update with a chat id whose trimmed text starts with "/start",
\* the text handed to the Sender is the fixed greeting and generate_response
\* and the completion provider are never called.
C8_StartGreeting ==
    \A r \in Invocations :
        IdPresent(update[r]) /\ TextStart(update[r]) =>
            /\ gen_calls[r] = 0 /\ completion[r] = << >>
            /\ pc[r] # "gen_call" /\ pc[r] # "gen_post"
            /\ send_calls[r] > 0 \/ pc[r] = "send_call" => response_text[r] = GREETING
            /\ \A i \in 1..Len(posts[r]) : posts[r][i].text = GREETING

\* "/startx" surrounded by nothing, posted to the chat as the greeting.
C8_Witness ==
    \E r \in Invocations :
        /\ update[r].text = TStr(START_CMD \o << "x" >>)
        /\ Len(posts[r]) > 0 /\ posts[r][1].text = GREETING

\* C9 (as stated): webhook() answers 400, never 200 or 500, when the body is
\* empty or unparseable or message.chat.id is missing, without any completion
\* call or send attempt.
BadPayload(u) ==
    \/ u.body \in {"badjson", "nomime", "falsy"}
    \/ u.body = "object" /\ u.id.k = "absent"
C9_BadPayload400 ==
    \A r \in Invocations :
        Done(r) /\ BadPayload(update[r]) =>
            /\ http[r].code = 400
            /\ gen_calls[r] = 0 /\ completion[r] = << >>
            /\ send_calls[r] = 0 /\ posts[r] = << >>

\* C10 (as stated): with chat.id present and text absent, empty or whitespace,
\* webhook() hands the prompt-for-input string to the Sender, calls no
\* completion and answers 200.
C10_Original ==
    \A r \in Invocations :
        Done(r) /\ IdPresent(update[r]) /\ TextBlank(update[r]) =>
            /\ send_calls[r] = 1 /\ Len(posts[r]) >= 1
            /\ \A i \in 1..Len(posts[r]) : posts[r][i].text = EMPTY_TEXT_REPLY
            /\ gen_calls[r] = 0 /\ completion[r] = << >>
            /\ http[r] = Success

\* C10 (amended): with chat.id a non-zero integer and text absent, empty or
\* whitespace-only, webhook() hands the prompt-for-input string to the Sender,
\* makes no call to the completion provider and answers 200.
C10_EmptyTextPrompt ==
    \A r \in Invocations :
        IdNonZero(update[r]) /\ TextBlank(update[r]) =>
            /\ gen_calls[r] = 0 /\ completion[r] = << >>
            /\ pc[r] # "gen_call" /\ pc[r] # "gen_post"
            /\ \A i \in 1..Len(posts[r]) : posts[r][i].text = EMPTY_TEXT_REPLY
            /\ Done(r) =>
                  /\ send_calls[r] = 1 /\ Len(posts[r]) >= 1
                  /\ response_text[r] = EMPTY_TEXT_REPLY
                  /\ http[r] = Success

\* A whitespace-only text answered with the prompt for input.
C10_Witness ==
    \E r \in Invocations :
        /\ Done(r) /\ update[r].id = JInt(1) /\ update[r].text = TStr(<< "\n", " " >>)
        /\ posts[r][1].text = EMPTY_TEXT_REPLY /\ http[r] = Success


\* ------------------------------------------------------------ C11 .. C19
\* GET /health served by every invocation slot of the running service.
InitHealth ==
    /\ proc = "serving"
    /\ environ = [TELEGRAM_TOKEN |-> "token", OPENROUTER_API_KEY |-> "key"]
    /\ TELEGRAM_TOKEN = "token"
    /\ OPENROUTER_API_KEY = "key"
    /\ inbox = [r \in Invocations |-> {}]
    /\ network = AnyNetwork
    /\ pc = [r \in Invocations |-> "idle"]
    /\ caller = [r \in Invocations |-> "health"]
    /\ prompt = [r \in Invocations |-> << >>]
    /\ gen_calls = [r \in Invocations |-> 0]
    /\ text = [r \in Invocations |-> << >>]
    /\ Locals0

NextHealth ==
    \E r \in Invocations :
        \/ health_check(r)
        \/ health_telegram(r)
        \/ health_openrouter(r)
        \/ health_return(r)

SpecHealth == InitHealth /\ [][NextHealth]_vars

ProbeSucceeded(r, key) ==
    \E i \in 1..Len(probes[r]) :
        /\ probes[r][i].target = key
        /\ probes[r][i].outcome.exc = "none" /\ probes[r][i].outcome.status = 200

\* C11: health_check always returns a structured result and never raises; the
\* status is "healthy" exactly when both checks got HTTP 200, "degraded"
\* otherwise; the completion-host check runs in every run, also when the
\* platform check failed or raised.
C11_HealthAggregate ==
    \A r \in Invocations :
        /\ escaped[r] = "none"
        /\ pc[r] = "done" =>
              /\ health[r] \in {"healthy", "degraded"}
              /\ (health[r] = "healthy") =
                     (ProbeSucceeded(r, "telegram_api") /\ ProbeSucceeded(r, "openrouter_api"))
              /\ checks[r] = [telegram_api |-> ProbeSucceeded(r, "telegram_api"),
                              openrouter_api |-> ProbeSucceeded(r, "openrouter_api")]
              /\ Len(probes[r]) = 2
              /\ probes[r][1].target = "telegram_api"
              /\ probes[r][2].target = "openrouter_api"

\* The platform check raised, the completion-host check still ran and got 200.
C11_Witness ==
    \E r \in Invocations :
        /\ pc[r] = "done" /\ health[r] = "degraded" /\ Len(probes[r]) = 2
        /\ probes[r][1].outcome.exc = "ConnectionError"
        /\ probes[r][2].outcome.status = 200
        /\ checks[r].openrouter_api


\* The contents of the 200 completions an invocation received.
OkContents(r) ==
    { completion[r][i].content :
        i \in { j \in 1..Len(completion[r]) : ~CompletionFailed(completion[r][j]) } }

FixedAnswers ==
    { Success,
      [code |-> 400, status |-> "error", message |-> "Empty request"],
      [code |-> 400, status |-> "error", message |-> "Invalid chat ID"],
      [code |-> 500, status |-> "error", message |-> "Internal server error"] }

\* C12: the text sent to the chat is always the greeting, the prompt for
\* input, a member of the fallback pool or the content of a 200 completion,
\* and a webhook answer carries only one of the fixed messages; no upstream
\* error body and no exception text appears in either.
C12_OnlyFixedOrCompletionText ==
    \A r \in Invocations :
        /\ \A i \in 1..Len(posts[r]) :
               posts[r][i].text \in
                   {GREETING, EMPTY_TEXT_REPLY} \cup FallbackPool \cup OkContents(r)
        /\ http[r] \in FixedAnswers \cup {NoHttp}

\* A 500 of the provider whose body carried "X": the chat got a fallback.
C12_Witness ==
    \E r \in Invocations :
        /\ Done(r) /\ http[r] = Success /\ Len(completion[r]) = 1 /\ Len(posts[r]) > 0
        /\ completion[r][1].status = 500 /\ completion[r][1].content = "X"
        /\ posts[r][1].text \in FallbackPool


\* C13 (as stated): waits happen only between attempts, so once the Sender has
\* returned it made one wait fewer than POSTs: 2 waits in a run of 3 failed
\* attempts, and False is returned right after the third failure.
C13_WaitsOnlyBetweenAttempts ==
    \A r \in Invocations :
        send_ret[r] # "none" => Len(sleeps[r]) = Len(posts[r]) - 1

\* C14: the wait after a failed attempt is 1 when the attempt got a non-200
\* response and 2 when it ended in a transport fault, whatever the attempt
\* number.
C14_WaitByOutcome ==
    \A r \in Invocations :
        /\ Len(sleeps[r]) <= Len(posts[r])
        /\ \A i \in 1..Len(sleeps[r]) :
               sleeps[r][i] = IF posts[r][i].outcome.exc = "none" THEN 1 ELSE 2
        /\ pc[r] = "send_sleep" =>
               backoff[r] = IF posts[r][Len(posts[r])].outcome.exc = "none" THEN 1 ELSE 2

\* A fault on the first attempt and a 503 on the second: waits of 2, then 1.
C14_Witness ==
    \E r \in Invocations :
        /\ Len(sleeps[r]) >= 2 /\ sleeps[r][1] = 2 /\ sleeps[r][2] = 1
        /\ posts[r][1].outcome.exc = "Timeout" /\ posts[r][2].outcome.status = 503


\* C15: generate_response makes at most one POST to the completion provider
\* per invocation (after a failure it returns a fallback, it does not try
\* again), and the handling of one update calls it at most once.
C15_SingleCompletionAttempt ==
    \A r \in Invocations :
        /\ Len(completion[r]) <= 1
        /\ gen_calls[r] <= 1
        /\ Len(completion[r]) = 1 => pc[r] # "gen_post" /\ gen_calls[r] = 1
        /\ Len(completion[r]) = 1 /\ CompletionFailed(completion[r][1]) /\ escaped[r] = "none" =>
               gen_ret[r] \in FallbackPool

\* The one completion call timed out; the update was handled to its end.
C15_Witness ==
    \E r \in Invocations :
        /\ Done(r) /\ Len(completion[r]) = 1 /\ completion[r][1].exc = "Timeout"
        /\ gen_calls[r] = 1 /\ gen_ret[r] \in FallbackPool /\ Len(posts[r]) > 0


\* The updates of the termination check: one chat, the texts that take each
\* branch of webhook(), and the malformed shapes.
LiveUpdates ==
    { u \in Updates :
        /\ u.id \in {JAbsent, JInt(1)}
        /\ u.text \in {TAbsent, TNull, TStr(START_CMD), TStr(<< "h", "i" >>)} }

InitLive ==
    /\ proc = "starting"
    /\ environ = [TELEGRAM_TOKEN |-> "token", OPENROUTER_API_KEY |-> "key"]
    /\ TELEGRAM_TOKEN = None
    /\ OPENROUTER_API_KEY = None
    /\ inbox = [r \in Invocations |-> IF r = 1 THEN LiveUpdates ELSE {}]
    /\ network = AnyNetwork
    /\ pc = [r \in Invocations |-> "idle"]
    /\ caller = [r \in Invocations |-> "webhook"]
    /\ prompt = [r \in Invocations |-> << >>]
    /\ gen_calls = [r \in Invocations |-> 0]
    /\ text = [r \in Invocations |-> << >>]
    /\ Locals0

\* The steps of a handler that has been entered.  The thread that runs it keeps
\* running: a blocking call ends in a response or in its timeout, a sleep ends.
Run(r) ==
    \/ generate_response(r)
    \/ generate_post(r)
    \/ send_telegram_message(r)
    \/ send_post(r)
    \/ send_sleep(r)
    \/ send_fail(r)
    \/ webhook_respond(r)

SpecLive == InitLive /\ [][Next]_vars /\ \A r \in Invocations : WF_vars(Run(r))

\* C16: every invocation of webhook() eventually returns an HTTP response
\* (200, 400 or 500): a handler that is under way reaches its end, the Sender
\* ends delivered or exhausted after at most 3 attempts.
C16_WebhookReturns ==
    /\ [](\A r \in Invocations :
            /\ Len(posts[r]) <= 3
            /\ Done(r) => http[r].code \in {200, 400, 500} /\ escaped[r] = "none"
            /\ Done(r) /\ send_calls[r] > 0 => send_ret[r] \in {"True", "False"})
    /\ \A r \in Invocations : (pc[r] \notin {"idle", "done"}) ~> Done(r)

\* The Sender was exhausted after three timeouts and webhook() returned.
C16_Witness ==
    \E r \in Invocations :
        /\ Done(r) /\ send_ret[r] = "False" /\ http[r].code = 200
        /\ Len(posts[r]) = 3
        /\ \A i \in 1..3 : posts[r][i].outcome.exc = "Timeout"


\* Concurrent handling: every invocation slot receives an update of its own
\* chat (a "/start" or a text for the completion provider); the platform
\* answers 200 or 503, the provider answers 200.
ConcUpdates(r) ==
    { [body |-> "object", message |-> "object", chat |-> "object",
       id |-> JInt(((r - 1) % MaxChatId) + 1), text |-> TStr(t)] :
        t \in {START_CMD, << "h", "i" >>} }

ConcNetwork ==
    [platform |-> { o \in PlatformOutcomes : o.exc = "none" /\ o.status \in {200, 503} },
     completion |-> { o \in CompletionOutcomes :
                        o.status = 200 /\ o.body = "completion" /\ o.content = "X" }]

InitConc ==
    /\ proc = "starting"
    /\ environ = [TELEGRAM_TOKEN |-> "token", OPENROUTER_API_KEY |-> "key"]
    /\ TELEGRAM_TOKEN = None
    /\ OPENROUTER_API_KEY = None
    /\ inbox = [r \in Invocations |-> ConcUpdates(r)]
    /\ network = ConcNetwork
    /\ pc = [r \in Invocations |-> "idle"]
    /\ caller = [r \in Invocations |-> "webhook"]
    /\ prompt = [r \in Invocations |-> << >>]
    /\ gen_calls = [r \in Invocations |-> 0]
    /\ text = [r \in Invocations |-> << >>]
    /\ Locals0

SpecConc == InitConc /\ [][Next]_vars

\* Everything one invocation of webhook() holds.
Frame(r) ==
    << pc[r], update[r], chat_id[r], text[r], response_text[r], http[r], escaped[r],
       prompt[r], gen_calls[r], completion[r], gen_ret[r], send_calls[r], attempt[r],
       posts[r], sleeps[r], backoff[r], send_ret[r], delivered[r] >>

\* C17: under any interleaving of concurrent webhook() invocations, each posts
\* only to the chat id of its own update, a step of one invocation leaves the
\* attempt counter, the outcome and every other local of the others as they
\* were, and the configuration is never written once the service is serving.
C17_Isolation ==
    /\ [](\A r \in Invocations : \A i \in 1..Len(posts[r]) :
             posts[r][i].chat_id = update[r].id)
    /\ [][\E r \in Invocations : \A q \in Invocations \ {r} : Frame(q)' = Frame(q)]_vars
    /\ [][proc = "serving" =>
             UNCHANGED << proc, TELEGRAM_TOKEN, OPENROUTER_API_KEY, environ >>]_vars

\* Two handlers under way at once, for different chats, at different attempts.
C17_Witness ==
    \E r, q \in Invocations :
        /\ r # q
        /\ pc[r] = "send_sleep" /\ Len(posts[r]) = 2 /\ attempt[r] = 1
        /\ pc[q] = "send_post" /\ Len(posts[q]) = 1 /\ attempt[q] = 1
        /\ posts[r][1].chat_id # posts[q][1].chat_id


\* Updates whose processing raises: a truthy body that is no object, a message
\* or chat that is no object, a text that is no string.
Faulty(u) ==
    \/ u.body \in {"badjson", "scalar"}
    \/ u.message \in {"null", "scalar"}
    \/ u.chat \in {"null", "scalar"}
    \/ u.text.k \in {"null", "number"}

InternalError == [code |-> 500, status |-> "error", message |-> "Internal server error"]

\* C18: a fault raised while webhook() processes a request is caught inside
\* webhook(): the caller receives 500 with the generic body and no exception
\* leaves the handler.
C18_FaultsBecome500 ==
    \A r \in Invocations :
        /\ escaped[r] = "none"
        /\ Done(r) /\ Faulty(update[r]) =>
               /\ http[r] = InternalError
               /\ send_calls[r] = 0 /\ gen_calls[r] = 0
        /\ http[r].code = 500 =>
               http[r] = InternalError /\ (Faulty(update[r]) \/ update[r].body = "nomime")

\* A chat id is present but the text is a number: strip() raised, 500.
C18_Witness ==
    \E r \in Invocations :
        /\ Done(r) /\ update[r].id = JInt(1) /\ update[r].text = TNumber
        /\ http[r] = InternalError


\* C19: within the handling of one update the reply is fixed before the first
\* send attempt: at the first POST to the platform the completion call (if any)
\* has returned, nothing about the reply changes afterwards, and all attempts
\* carry the same chat id and the same text.
C19_ReplyFixedBeforeSend ==
    /\ [](\A r \in Invocations :
            /\ \A i \in 1..Len(posts[r]) :
                   /\ posts[r][i].text = posts[r][1].text
                   /\ posts[r][i].chat_id = posts[r][1].chat_id
                   /\ posts[r][i].text = response_text[r]
                   /\ posts[r][i].chat_id = update[r].id
            /\ Len(posts[r]) > 0 =>
                   /\ pc[r] \notin {"idle", "gen_call", "gen_post", "send_call"}
                   /\ gen_calls[r] > 0 => gen_ret[r] = response_text[r])
    /\ [][\A r \in Invocations :
            Len(posts[r]) > 0 =>
                /\ completion'[r] = completion[r]
                /\ gen_ret'[r] = gen_ret[r]
                /\ response_text'[r] = response_text[r]
                /\ chat_id'[r] = chat_id[r]]_vars

\* Three attempts that all carried the second fallback string, to chat 2.
C19_Witness ==
    \E r \in Invocations :
        /\ Len(posts[r]) = 3 /\ Len(completion[r]) = 1
        /\ gen_ret[r] = fallback_responses[2]
        /\ \A i \in 1..3 : posts[r][i].text = fallback_responses[2]
                           /\ posts[r][i].chat_id = JInt(2)

====
